---- MODULE Spec2Model ----
(***************************************************************************)
(* Model of the CubeMaster PoC API (app/main.py, app/cubemaster_client.py, *)
(* app/excel_transformer.py): the pending -> processed -> exported file    *)
(* pipeline driven by the /optimize-load handler and by the                *)
(* /process-pending-files batch run, on one asyncio event loop.            *)
(*                                                                         *)
(* A coroutine runs without interruption between two awaits; the only      *)
(* await of both handlers is the remote call.  Every step below performs   *)
(* at most one mutating file operation, so killing the process between any *)
(* two file operations is the Kill action taken between two steps.         *)
(***************************************************************************)
EXTENDS Integers, Sequences, FiniteSets, TLC

\* Number of file names per directory: the requests are numbered 1..MaxItems.
MaxItems == 3
\* Number of /optimize-load requests made in one behaviour of Spec.
MaxRequests == 2

Ids == 1..MaxItems
\* The /process-pending-files calls that may be in flight at a time.
Runs == {1}

(***************************************************************************)
(* JSON values.  A value is a record [t, s, keys, vals]: a scalar has      *)
(* t = "str" and its text in s; a list has its elements in vals; an object *)
(* has its keys (in insertion order) in keys and their values in vals.     *)
(***************************************************************************)
JStr(x) == [t |-> "str", s |-> x, keys |-> <<>>, vals |-> <<>>]
JList(xs) == [t |-> "list", s |-> "", keys |-> <<>>, vals |-> xs]
JObj(ks, vs) == [t |-> "obj", s |-> "", keys |-> ks, vals |-> vs]
\* A number, with its text in s
JNum(x) == [t |-> "num", s |-> x, keys |-> <<>>, vals |-> <<>>]
\* The missing value of a DataFrame cell
NaN == [t |-> "nan", s |-> "", keys |-> <<>>, vals |-> <<>>]

\* {"items": [{"a": "1"}], "ctx": "x"}
DocFlat == JObj(<<"items", "ctx">>, <<JList(<<JObj(<<"a">>, <<JStr("1")>>)>>), JStr("x")>>)
\* {"items": [{"a": "1"}], "meta": {"tags": []}}
DocTags == JObj(<<"items", "meta">>,
                <<JList(<<JObj(<<"a">>, <<JStr("1")>>)>>), JObj(<<"tags">>, <<JList(<<>>)>>)>>)
\* The bodies the remote service answers with on success.
Docs == {DocFlat, DocTags}

(***************************************************************************)
(* pandas.json_normalize(data, sep='.') on one object: a dict that maps    *)
(* dotted paths to the non-dict leaves, as a sequence of [col, val] in     *)
(* insertion order.                                                        *)
(***************************************************************************)
\* d[col] = val on an insertion-ordered dict held as a sequence of [col, val]
DictSet(d, c, v) ==
    IF \E k \in 1..Len(d) : d[k].col = c
    THEN [k \in 1..Len(d) |-> IF d[k].col = c THEN [col |-> c, val |-> v] ELSE d[k]]
    ELSE Append(d, [col |-> c, val |-> v])

RECURSIVE DictUpdate(_, _)
\* {**d, **e}
DictUpdate(d, e) ==
    IF e = <<>> THEN d ELSE DictUpdate(DictSet(d, e[1].col, e[1].val), Tail(e))

RECURSIVE NormaliseJson(_, _, _)
\* _normalise_json(data, key_string, normalized_dict, separator='.')
NormaliseJson(data, key_string, normalized_dict) ==
    IF data.t = "obj"
    THEN LET RECURSIVE Each(_, _)
             Each(k, acc) ==
                 IF k > Len(data.keys) THEN acc
                 ELSE Each(k + 1,
                           NormaliseJson(data.vals[k],
                                         IF key_string = "" THEN data.keys[k]
                                         ELSE key_string \o "." \o data.keys[k],
                                         acc))
         IN Each(1, normalized_dict)
    ELSE DictSet(normalized_dict, key_string, data)

RECURSIVE SelectItems(_, _, _)
\* {k: v for k, v in obj.items() if <position of k> in keep}, from position k on
SelectItems(obj, keep, k) ==
    IF k > Len(obj.keys) THEN JObj(<<>>, <<>>)
    ELSE LET rest == SelectItems(obj, keep, k + 1)
         IN IF k \in keep
            THEN JObj(<<obj.keys[k]>> \o rest.keys, <<obj.vals[k]>> \o rest.vals)
            ELSE rest

\* _normalise_json_ordered: the top-level non-dict entries first, then the
\* flattened dict-valued entries
NormaliseJsonOrdered(data) ==
    LET dicts == {k \in 1..Len(data.keys) : data.vals[k].t = "obj"}
        top == SelectItems(data, (1..Len(data.keys)) \ dicts, 1)
        top_dict == [k \in 1..Len(top.keys) |-> [col |-> top.keys[k], val |-> top.vals[k]]]
        nested_dict == NormaliseJson(SelectItems(data, dicts, 1), "", <<>>)
    IN DictUpdate(top_dict, nested_dict)

\* isinstance(value, list) and value and all(isinstance(item, dict) for item in value)
IsRecordList(value) ==
    /\ value.t = "list"
    /\ Len(value.vals) > 0
    /\ \A k \in 1..Len(value.vals) : value.vals[k].t = "obj"

\* candidate_keys of _response_to_dataframe, as positions in the object
CandidateKeys(response_data) ==
    {k \in 1..Len(response_data.keys) : IsRecordList(response_data.vals[k])}

\* context_flat of _response_to_dataframe: the flattened non-candidate entries
ContextFlat(response_data) ==
    NormaliseJsonOrdered(
        SelectItems(response_data,
                    (1..Len(response_data.keys)) \ CandidateKeys(response_data), 1))

(***************************************************************************)
(* Whether convert_cubemaster_response_to_csv raises on a response: the    *)
(* column assignment df_key[column] = context_flat.iloc[0][column] raises  *)
(* ValueError when the context value is a list whose length is not the     *)
(* number of rows of df_key.                                               *)
(***************************************************************************)
ConvertRaises(response_data) ==
    /\ response_data.t = "obj"
    /\ \E k \in CandidateKeys(response_data) :
         \E c \in 1..Len(ContextFlat(response_data)) :
            LET value == ContextFlat(response_data)[c].val
            IN /\ value.t = "list"
               /\ Len(value.vals) # Len(response_data.vals[k].vals)

(***************************************************************************)
(* DataFrames.  A frame is [columns, rows]: the column labels in order and *)
(* the rows in order, each row the sequence of its cells in column order.  *)
(***************************************************************************)
\* pd.DataFrame()
EmptyFrame == [columns |-> <<>>, rows |-> <<>>]

\* df.empty: an axis of length 0
DfEmpty(df) == Len(df.columns) = 0 \/ Len(df.rows) = 0

\* d.get(c, NaN) on a dict held as a sequence of [col, val]
DictGet(d, c) ==
    IF \E k \in 1..Len(d) : d[k].col = c
    THEN d[CHOOSE k \in 1..Len(d) : d[k].col = c].val
    ELSE NaN

RECURSIVE UnionColumns(_, _)
\* The labels of cols followed by the labels of more that are not in cols
UnionColumns(cols, more) ==
    IF more = <<>> THEN cols
    ELSE UnionColumns(IF \E k \in 1..Len(cols) : cols[k] = more[1]
                      THEN cols ELSE Append(cols, more[1]),
                      Tail(more))

RECURSIVE DictColumns(_, _)
\* The keys of a list of dicts, in the order of their first appearance
DictColumns(dicts, acc) ==
    IF dicts = <<>> THEN acc
    ELSE DictColumns(Tail(dicts),
                     UnionColumns(acc, [k \in 1..Len(dicts[1]) |-> dicts[1][k].col]))

\* pd.DataFrame(dicts): one row per dict, one column per key
DataFrameOfDicts(dicts) ==
    LET columns == DictColumns(dicts, <<>>)
    IN [columns |-> columns,
        rows |-> [r \in 1..Len(dicts) |->
                     [c \in 1..Len(columns) |-> DictGet(dicts[r], columns[c])]]]

\* pd.json_normalize(records, sep='.') on a list of dicts
JsonNormalize(records) ==
    DataFrameOfDicts([r \in 1..Len(records) |-> NormaliseJsonOrdered(records[r])])

\* df_key.columns = [f"{key}.{col}" for col in df_key.columns]
PrefixColumns(df, key) ==
    [df EXCEPT !.columns = [c \in 1..Len(df.columns) |-> key \o "." \o df.columns[c]]]

\* Whether df[column] = value raises: a list is taken as the column's
\* values, and its length must be the length of the index
SetColumnRaises(df, value) == value.t = "list" /\ Len(value.vals) # Len(df.rows)

\* Faulty variant of SetColumn, for comparison: a new label goes first.
SetColumnInFront(df, column, value) ==
    LET Cell(r) == IF value.t = "list" THEN value.vals[r] ELSE value
    IN IF \E c \in 1..Len(df.columns) : df.columns[c] = column
       THEN [df EXCEPT !.rows = [r \in 1..Len(df.rows) |->
                                    [c \in 1..Len(df.columns) |->
                                        IF df.columns[c] = column THEN Cell(r)
                                        ELSE df.rows[r][c]]]]
       ELSE [columns |-> <<column>> \o df.columns,
             rows |-> [r \in 1..Len(df.rows) |-> <<Cell(r)>> \o df.rows[r]]]

\* df[column] = value: a list gives row r its r-th element, anything else
\* is given to every row; a new label goes last
SetColumn(df, column, value) ==
    LET Cell(r) == IF value.t = "list" THEN value.vals[r] ELSE value
    IN IF \E c \in 1..Len(df.columns) : df.columns[c] = column
       THEN [df EXCEPT !.rows = [r \in 1..Len(df.rows) |->
                                    [c \in 1..Len(df.columns) |->
                                        IF df.columns[c] = column THEN Cell(r)
                                        ELSE df.rows[r][c]]]]
       ELSE [columns |-> Append(df.columns, column),
             rows |-> [r \in 1..Len(df.rows) |-> Append(df.rows[r], Cell(r))]]

RECURSIVE SetContext(_, _)
\* for column in context_flat.columns: df_key[column] = context_flat.iloc[0][column]
SetContext(df, context_flat) ==
    IF context_flat = <<>> THEN [raised |-> FALSE, df |-> df]
    ELSE IF SetColumnRaises(df, context_flat[1].val)
    THEN [raised |-> TRUE, df |-> df]
    ELSE SetContext(SetColumn(df, context_flat[1].col, context_flat[1].val),
                    Tail(context_flat))

RECURSIVE ConcatColumns(_, _)
ConcatColumns(frames, acc) ==
    IF frames = <<>> THEN acc
    ELSE ConcatColumns(Tail(frames), UnionColumns(acc, frames[1].columns))

RECURSIVE ConcatRows(_, _)
\* The rows of the frames, one frame after the other, on the given columns
ConcatRows(frames, columns) ==
    IF frames = <<>> THEN <<>>
    ELSE LET f == frames[1]
             Cell(r, c) ==
                 IF \E k \in 1..Len(f.columns) : f.columns[k] = columns[c]
                 THEN f.rows[r][CHOOSE k \in 1..Len(f.columns) : f.columns[k] = columns[c]]
                 ELSE NaN
         IN [r \in 1..Len(f.rows) |-> [c \in 1..Len(columns) |-> Cell(r, c)]]
            \o ConcatRows(Tail(frames), columns)

\* pd.concat(frames, ignore_index=True): one frame with the union of the
\* columns and all the rows, NaN where a frame has no such column
Concat(frames) ==
    LET columns == ConcatColumns(frames, <<>>)
    IN [columns |-> columns, rows |-> ConcatRows(frames, columns)]

RECURSIVE JsonDumps(_)
\* json.dumps(value)
JsonDumps(value) ==
    LET RECURSIVE Items(_)
        Items(k) ==
            IF k > Len(value.vals) THEN ""
            ELSE (IF k > 1 THEN ", " ELSE "")
                 \o (IF value.t = "obj" THEN "\"" \o value.keys[k] \o "\": " ELSE "")
                 \o JsonDumps(value.vals[k]) \o Items(k + 1)
    IN CASE value.t = "str" -> "\"" \o value.s \o "\""
         [] value.t = "num" -> value.s
         [] value.t = "nan" -> "NaN"
         [] value.t = "list" -> "[" \o Items(1) \o "]"
         [] value.t = "obj" -> "{" \o Items(1) \o "}"

\* _serialize_cell
SerializeCell(value) ==
    IF value.t \in {"obj", "list"} THEN JStr(JsonDumps(value)) ELSE value

\* for column in df.columns: df[column] = df[column].apply(_serialize_cell)
SerializeCells(df) ==
    [df EXCEPT !.rows = [r \in 1..Len(df.rows) |->
                            [c \in 1..Len(df.columns) |-> SerializeCell(df.rows[r][c])]]]

RECURSIVE KeyFrames(_, _, _)
\* The loop over candidate_keys, from position k on: frames, or the exception
KeyFrames(response_data, context_flat, k) ==
    IF k > Len(response_data.keys) THEN [raised |-> FALSE, frames |-> <<>>]
    ELSE IF k \notin CandidateKeys(response_data)
    THEN KeyFrames(response_data, context_flat, k + 1)
    ELSE LET df_key == SetContext(PrefixColumns(JsonNormalize(response_data.vals[k].vals),
                                                response_data.keys[k]),
                                  context_flat)
             rest == KeyFrames(response_data, context_flat, k + 1)
         IN IF df_key.raised \/ rest.raised THEN [raised |-> TRUE, frames |-> <<>>]
            ELSE [raised |-> FALSE, frames |-> <<df_key.df>> \o rest.frames]

\* _response_to_dataframe: the frame it returns, or raised
ResponseToDataframe(response_data) ==
    LET Done(df) == [raised |-> FALSE, df |-> IF DfEmpty(df) THEN df ELSE SerializeCells(df)]
    IN CASE response_data.t = "list" ->
              IF response_data.vals = <<>> THEN Done(EmptyFrame)
              ELSE IF \A k \in 1..Len(response_data.vals) : response_data.vals[k].t = "obj"
              THEN Done(JsonNormalize(response_data.vals))
              ELSE Done([columns |-> <<"value">>,
                         rows |-> [r \in 1..Len(response_data.vals) |->
                                      <<response_data.vals[r]>>]])
         [] response_data.t = "obj" ->
              IF CandidateKeys(response_data) # {}
              THEN LET made == KeyFrames(response_data, ContextFlat(response_data), 1)
                   IN IF made.raised THEN [raised |-> TRUE, df |-> EmptyFrame]
                      ELSE Done(Concat(made.frames))
              ELSE Done(JsonNormalize(<<response_data>>))
         [] OTHER -> Done([columns |-> <<"value">>, rows |-> <<<<response_data>>>>])

\* No conversion made yet
NoConversion == [raised |-> FALSE, df |-> EmptyFrame, row_count |-> 0]

\* The frame convert_cubemaster_response_to_csv writes when the response is empty
PlaceholderFrame ==
    [columns |-> <<"message">>, rows |-> <<<<JStr("CubeMaster response was empty")>>>>]

\* convert_cubemaster_response_to_csv: the frame given to to_csv and
\* len(df.index), or raised
ConvertCubemasterResponseToCsv(response_data) ==
    LET made == ResponseToDataframe(response_data)
        df == IF DfEmpty(made.df) THEN PlaceholderFrame ELSE made.df
    IN IF made.raised THEN [raised |-> TRUE, df |-> EmptyFrame, row_count |-> 0]
       ELSE [raised |-> FALSE, df |-> df, row_count |-> Len(df.rows)]

(***************************************************************************)
(* Files.  A file is absent ("none"), holds the JSON document written to   *)
(* it ("json"), or holds text that is not JSON ("invalid": a file put into *)
(* json_pendiente/ by hand).  A write_text that fails leaves the file as   *)
(* it was.                                                                 *)
(***************************************************************************)
NoFile == [kind |-> "none", request_id |-> 0, timestamp |-> 0, status |-> "", payload |-> JStr("")]
Invalid == [kind |-> "invalid", request_id |-> 0, timestamp |-> 0, status |-> "", payload |-> JStr("")]

\* The body of the i-th /optimize-load request.
Payload(i) == JObj(<<"load">>, <<JStr(ToString(i))>>)

\* payload_with_metadata of save_to_json_pendiente; the request's timestamp
\* is modelled by the request's number
PayloadWithMetadata(payload, request_id, timestamp) ==
    [kind |-> "json", request_id |-> request_id, timestamp |-> timestamp,
     status |-> "pending", payload |-> payload]

\* payload_data of move_to_json_procesado after its metadata update
ProcessedData(payload_data) == [payload_data EXCEPT !.status = "processed"]

\* The files of json_procesado/: processed_<ts>_<id>.json (the handler's) and
\* request_<ts>_<id>.json (the batch run's copy under the pending file's name);
\* the files of csv_procesado/: result_<ts>_<id>.csv and request_<ts>_<id>.csv
ProcesadoNames == {"processed", "request"} \X Ids
CsvNames == {"result", "request"} \X Ids

(***************************************************************************)
(* The remote service and CubeMasterClient.optimize_load.                  *)
(***************************************************************************)
StatusCodes == {404, 503}
RemoteOutcomes ==
    {[kind |-> "ok", code |-> 200, doc |-> d] : d \in Docs}
    \cup {[kind |-> "status", code |-> c, doc |-> JStr("")] : c \in StatusCodes}
    \cup {[kind |-> k, code |-> 0, doc |-> JStr("")] : k \in {"connect", "timeout"}}

NoCall == [raised |-> FALSE, type |-> "", code |-> 0, result |-> JStr("")]

\* What awaiting cubemaster.optimize_load(payload) gives: the result, or the
\* exception it raises.  An HTTPStatusError of raise_for_status is caught in
\* the client and replaced by a plain Exception carrying the status in its text.
ClientOptimizeLoad(outcome) ==
    CASE outcome.kind = "ok" ->
           [raised |-> FALSE, type |-> "", code |-> 0, result |-> outcome.doc]
      [] outcome.kind = "status" ->
           [raised |-> TRUE, type |-> "Exception", code |-> outcome.code, result |-> JStr("")]
      [] outcome.kind = "connect" ->
           [raised |-> TRUE, type |-> "ConnectError", code |-> 0, result |-> JStr("")]
      [] outcome.kind = "timeout" ->
           [raised |-> TRUE, type |-> "ReadTimeout", code |-> 0, result |-> JStr("")]

(***************************************************************************)
(* Responses of /optimize-load.  request_id and timestamp are 0 when the   *)
(* response body does not carry them; json_procesado tells whether         *)
(* files.json_procesado is a path (TRUE) or null (FALSE); to is the        *)
(* request the response answers.                                           *)
(***************************************************************************)
NoResponse ==
    [to |-> 0, status_code |-> 0, detail |-> "", request_id |-> 0, timestamp |-> 0,
     json_procesado |-> FALSE]
ErrorResponse(status_code, detail) ==
    [NoResponse EXCEPT !.status_code = status_code, !.detail = detail]

\* The except clauses of step 2 of optimize_container_load, after
\* save_error_log has returned
RemoteErrorResponse(exc, request_id, timestamp) ==
    IF exc.type = "HTTPStatusError"
    THEN [NoResponse EXCEPT !.status_code = IF exc.code < 500 THEN exc.code ELSE 502,
                            !.detail = "Erro da API CubeMaster",
                            !.request_id = request_id, !.timestamp = timestamp]
    ELSE ErrorResponse(500, "Erro no processamento")

\* An exception that leaves the handler: the server's plain 500 answer
UnhandledResponse == ErrorResponse(500, "Internal Server Error")

SuccessResponse(request_id, timestamp, procesado_path) ==
    [NoResponse EXCEPT !.status_code = 200, !.detail = "success",
                       !.request_id = request_id, !.timestamp = timestamp,
                       !.json_procesado = procesado_path]

(***************************************************************************)
(* State.                                                                  *)
(***************************************************************************)
VARIABLES
    pendiente,   \* json_pendiente/request_<ts>_<id>.json, by request id
    procesado,   \* the files of json_procesado/, by ProcesadoNames
    csv,         \* the files of csv_procesado/, by CsvNames
    errlog,      \* json_pendiente/error_<ts>_<id>.log, by request id
    hpc,         \* where each optimize_container_load call stands
    hresponse,   \* the response an optimize_container_load call has just returned
    rresponse,   \* the response a process_pending_files call has just returned
    running,     \* the coroutine that holds the event loop, <<"none", 0>> if none
    loc,         \* locals of the running coroutine: the client call's outcome, procesado_path
    rpc,         \* where each process_pending_files call stands
    rfiles,      \* json_files of each process_pending_files call
    ridx,        \* position of its for loop in json_files
    rresults,    \* its results dict
    sent,        \* the request bodies of the remote calls in flight, with their callers
    conv,        \* one call of convert_cubemaster_response_to_csv: its argument and result
    sheet,       \* one call of sanitize_sheet_name: its argument and result
    xl           \* one call of transformar_json_para_excel: its arguments, locals and file

vars == <<pendiente, procesado, csv, errlog, hpc, hresponse, rresponse, running, loc,
          rpc, rfiles, ridx, rresults, sent, conv, sheet, xl>>
\* The file pipeline's state, and the state of the calls studied on their own
pipevars == <<pendiente, procesado, csv, errlog, hpc, hresponse, rresponse, running, loc,
              rpc, rfiles, ridx, rresults, sent>>
purevars == <<conv, sheet, xl>>
stores == <<pendiente, procesado, csv, errlog>>
runvars == <<rpc, rfiles, ridx, rresults>>

Nobody == <<"none", 0>>
NoLoc == [call |-> NoCall, path |-> FALSE]
NoResults == [status |-> "", total_files |-> 0, processed |-> 0, failed |-> 0, details |-> <<>>]

\* Outcomes of one write_text, read_text or unlink of an existing file: done,
\* or an OSError
IoOutcomes == {"ok", "error"}

\* No call of the conversion, of sanitize_sheet_name or of the Excel export
\* is under study
NoPureCall ==
    /\ conv = [pc |-> "none"]
    /\ sheet = [pc |-> "none"]
    /\ xl = [pc |-> "none"]

\* json.loads(json_file.read_text()) on a file that holds a JSON document
\* (received_at, which no step reads, is left out of the files)
JsonLoads(file) ==
    JObj(<<"request_id", "timestamp", "status", "payload">>,
         <<JStr(ToString(file.request_id)), JStr(ToString(file.timestamp)),
           JStr(file.status), file.payload>>)

\* client.post(self.api_url, json=payload, headers=headers) by a caller
Post(caller, payload) == sent \cup {[by |-> caller, body |-> payload]}
\* The caller's request is over: answered, or failed
Answered(caller) == {m \in sent : m.by # caller}

Init ==
    /\ pendiente = [i \in Ids |-> NoFile]
    /\ procesado = [n \in ProcesadoNames |-> NoFile]
    /\ csv = [n \in CsvNames |-> "none"]
    /\ errlog = [i \in Ids |-> "none"]
    /\ hpc = [i \in Ids |-> "new"]
    /\ hresponse = NoResponse
    /\ rresponse = NoResults
    /\ running = Nobody
    /\ loc = NoLoc
    /\ rpc = [r \in Runs |-> "idle"]
    /\ rfiles = [r \in Runs |-> <<>>]
    /\ ridx = [r \in Runs |-> 0]
    /\ rresults = [r \in Runs |-> NoResults]
    /\ sent = {}
    /\ NoPureCall

\* What a write_text of content leaves in a file that held old
Written(old, content, outcome) == IF outcome = "ok" THEN content ELSE old

(***************************************************************************)
(* optimize_container_load, request i.  hresponse and rresponse hold a     *)
(* response only in the state its return leaves; the next step clears them.*)
(***************************************************************************)
\* The handler goes on to its next step.
HandlerGoto(i, pc) ==
    /\ hpc' = [hpc EXCEPT ![i] = pc]
    /\ hresponse' = NoResponse

\* The handler returns a response and gives up the event loop; a handler
\* whose step 1 failed ends as "rejected", any other as "done".
Respond(i, response) ==
    /\ hpc' = [hpc EXCEPT ![i] = IF hpc[i] = "new" THEN "rejected" ELSE "done"]
    /\ hresponse' = [response EXCEPT !.to = i]
    /\ running' = Nobody
    /\ loc' = NoLoc

\* Step 1, save_to_json_pendiente, up to the await of the remote call.
\* Request ids are fresh: the i-th request is the next one not yet made.
Submit(i) ==
    /\ running = Nobody
    /\ i <= MaxRequests
    /\ hpc[i] = "new"
    /\ \A j \in Ids : j < i => hpc[j] # "new"
    /\ \E w \in IoOutcomes :
         /\ pendiente' = [pendiente EXCEPT
                            ![i] = Written(@, PayloadWithMetadata(Payload(i), i, i), w)]
         /\ IF w = "ok"
            THEN /\ HandlerGoto(i, "remote")
                 /\ sent' = Post(<<"handler", i>>, Payload(i))
                 /\ UNCHANGED <<running, loc>>
            ELSE /\ Respond(i, ErrorResponse(500, "Erro ao salvar payload"))
                 /\ UNCHANGED sent
    /\ rresponse' = NoResults
    /\ UNCHANGED <<procesado, csv, errlog, runvars>>
    /\ UNCHANGED purevars

\* Step 2: the remote call returns or raises; the handler resumes.
HandlerResume(i) ==
    /\ running = Nobody
    /\ hpc[i] = "remote"
    /\ \E outcome \in RemoteOutcomes :
         LET call == ClientOptimizeLoad(outcome)
         IN /\ loc' = [call |-> call, path |-> FALSE]
            /\ HandlerGoto(i, IF call.raised THEN "save_error_log" ELSE "move_write")
    /\ running' = <<"handler", i>>
    /\ sent' = Answered(<<"handler", i>>)
    /\ rresponse' = NoResults
    /\ UNCHANGED <<stores, runvars>>
    /\ UNCHANGED purevars

\* Faulty variant of HandlerSaveErrorLog, for comparison: the failed request's pending file is
\* removed once its error record is written.
HandlerSaveErrorLogUnlinks(i) ==
    /\ hpc[i] = "save_error_log"
    /\ \E w \in IoOutcomes :
         /\ errlog' = [errlog EXCEPT ![i] = Written(@, "written", w)]
         /\ pendiente' = IF w = "ok" THEN [pendiente EXCEPT ![i] = NoFile] ELSE pendiente
         /\ Respond(i, IF w = "ok" THEN RemoteErrorResponse(loc.call, i, i)
                       ELSE UnhandledResponse)
    /\ rresponse' = NoResults
    /\ UNCHANGED <<procesado, csv, runvars>>
    /\ UNCHANGED <<sent, purevars>>

\* The except clauses of step 2: save_error_log, then the error response.
\* save_error_log is called outside any try: when it raises, its exception
\* leaves the handler.
HandlerSaveErrorLog(i) ==
    /\ hpc[i] = "save_error_log"
    /\ \E w \in IoOutcomes :
         /\ errlog' = [errlog EXCEPT ![i] = Written(@, "written", w)]
         /\ Respond(i, IF w = "ok" THEN RemoteErrorResponse(loc.call, i, i)
                       ELSE UnhandledResponse)
    /\ rresponse' = NoResults
    /\ UNCHANGED <<pendiente, procesado, csv, runvars>>
    /\ UNCHANGED <<sent, purevars>>

\* Faulty variant of HandlerMoveWrite, for comparison: the pending file is unlinked before the
\* processed one is written.
HandlerMoveWriteUnlinksFirst(i) ==
    /\ hpc[i] = "move_write"
    /\ \E rd \in IoOutcomes, w \in IoOutcomes :
         IF pendiente[i].kind = "json" /\ rd = "ok"
         THEN /\ pendiente' = [pendiente EXCEPT ![i] = NoFile]
              /\ procesado' = [procesado EXCEPT
                                 ![<<"processed", i>>] = Written(@, ProcessedData(pendiente[i]), w)]
              /\ HandlerGoto(i, "csv")
              /\ loc' = [loc EXCEPT !.path = (w = "ok")]
         ELSE /\ HandlerGoto(i, "csv")
              /\ UNCHANGED <<pendiente, procesado, loc>>
    /\ rresponse' = NoResults
    /\ UNCHANGED <<csv, errlog, running, runvars>>
    /\ UNCHANGED <<sent, purevars>>

\* Step 3, move_to_json_procesado: read the pending file, write the processed one.
\* An exception is caught by the handler, which goes on with procesado_path = None.
HandlerMoveWrite(i) ==
    /\ hpc[i] = "move_write"
    /\ \E rd \in IoOutcomes, w \in IoOutcomes :
         IF pendiente[i].kind = "json" /\ rd = "ok"
         THEN /\ procesado' = [procesado EXCEPT
                                 ![<<"processed", i>>] = Written(@, ProcessedData(pendiente[i]), w)]
              /\ HandlerGoto(i, IF w = "ok" THEN "move_unlink" ELSE "csv")
         ELSE /\ HandlerGoto(i, "csv")
              /\ UNCHANGED procesado
    /\ rresponse' = NoResults
    /\ UNCHANGED <<pendiente, csv, errlog, running, loc, runvars>>
    /\ UNCHANGED <<sent, purevars>>

\* Faulty variant of HandlerMoveUnlink, for comparison: a failing unlink is ignored and the path is
\* returned all the same.
HandlerMoveUnlinkIgnoresError(i) ==
    /\ hpc[i] = "move_unlink"
    /\ \E u \in IoOutcomes :
         /\ pendiente' = IF pendiente[i].kind # "none" /\ u = "ok"
                         THEN [pendiente EXCEPT ![i] = NoFile] ELSE pendiente
         /\ loc' = [loc EXCEPT !.path = TRUE]
    /\ HandlerGoto(i, "csv")
    /\ rresponse' = NoResults
    /\ UNCHANGED <<procesado, csv, errlog, running, runvars>>
    /\ UNCHANGED <<sent, purevars>>

\* Step 3, move_to_json_procesado: pendiente_path.unlink(), then return the path.
HandlerMoveUnlink(i) ==
    /\ hpc[i] = "move_unlink"
    /\ \E u \in IoOutcomes :
         IF pendiente[i].kind # "none" /\ u = "ok"
         THEN /\ pendiente' = [pendiente EXCEPT ![i] = NoFile]
              /\ loc' = [loc EXCEPT !.path = TRUE]
         ELSE UNCHANGED <<pendiente, loc>>
    /\ HandlerGoto(i, "csv")
    /\ rresponse' = NoResults
    /\ UNCHANGED <<procesado, csv, errlog, running, runvars>>
    /\ UNCHANGED <<sent, purevars>>

\* Steps 4 and 5: convert the result, save_to_csv_procesado, respond.
HandlerCsv(i) ==
    /\ hpc[i] = "csv"
    /\ IF ConvertRaises(loc.call.result)
       THEN /\ Respond(i, ErrorResponse(500, "Erro na conversao CSV"))
            /\ UNCHANGED csv
       ELSE \E w \in IoOutcomes :
              /\ csv' = [csv EXCEPT ![<<"result", i>>] = Written(@, "written", w)]
              /\ Respond(i, IF w = "ok" THEN SuccessResponse(i, i, loc.path)
                            ELSE ErrorResponse(500, "Erro ao salvar CSV"))
    /\ rresponse' = NoResults
    /\ UNCHANGED <<pendiente, procesado, errlog, runvars>>
    /\ UNCHANGED <<sent, purevars>>

(***************************************************************************)
(* process_pending_files, call r.                                          *)
(***************************************************************************)
\* list(pendiente_dir.glob("*.json")) for the set S of files present.  The
\* names are request_<timestamp>_<id>.json and the model numbers the requests
\* in the order of their timestamps; the files are taken in the order of
\* their names.
RECURSIVE Glob(_)
Glob(S) ==
    IF S = {} THEN <<>>
    ELSE LET first == CHOOSE x \in S : \A y \in S : x <= y
         IN <<first>> \o Glob(S \ {first})

\* The file the loop of call r is at
JsonFile(r) == rfiles[r][ridx[r]]

\* The call goes on to its next step.
RunGoto(r, pc) ==
    /\ rpc' = [rpc EXCEPT ![r] = pc]
    /\ rresponse' = NoResults
    /\ UNCHANGED <<rfiles, ridx, rresults>>

\* results after the entry of the current file is appended (the entry's
\* error text and paths are left out)
Recorded(r, status) ==
    [rresults[r] EXCEPT
       !.processed = IF status = "success" THEN @ + 1 ELSE @,
       !.failed = IF status = "failed" THEN @ + 1 ELSE @,
       !.details = Append(@, [file |-> JsonFile(r), status |-> status])]

\* Faulty variant of EndIteration, for comparison: a failed iteration ends the loop.
EndIterationAborts(r, status) ==
    /\ loc' = NoLoc
    /\ IF ridx[r] < Len(rfiles[r]) /\ status = "success"
       THEN /\ rresults' = [rresults EXCEPT ![r] = Recorded(r, status)]
            /\ ridx' = [ridx EXCEPT ![r] = @ + 1]
            /\ rpc' = [rpc EXCEPT ![r] = "iter"]
            /\ running' = <<"run", r>>
            /\ rresponse' = NoResults
            /\ UNCHANGED rfiles
       ELSE /\ rresponse' = [Recorded(r, status) EXCEPT !.status = "completed"]
            /\ rresults' = [rresults EXCEPT ![r] = NoResults]
            /\ ridx' = [ridx EXCEPT ![r] = 0]
            /\ rfiles' = [rfiles EXCEPT ![r] = <<>>]
            /\ rpc' = [rpc EXCEPT ![r] = "idle"]
            /\ running' = Nobody

\* One iteration ends: its entry is appended to results["details"], its
\* counter is incremented, and the loop goes to the next file or, after the
\* last one, the call returns its response and is over.
EndIteration(r, status) ==
    /\ loc' = NoLoc
    /\ IF ridx[r] < Len(rfiles[r])
       THEN /\ rresults' = [rresults EXCEPT ![r] = Recorded(r, status)]
            /\ ridx' = [ridx EXCEPT ![r] = @ + 1]
            /\ rpc' = [rpc EXCEPT ![r] = "iter"]
            /\ running' = <<"run", r>>
            /\ rresponse' = NoResults
            /\ UNCHANGED rfiles
       ELSE /\ rresponse' = [Recorded(r, status) EXCEPT !.status = "completed"]
            /\ rresults' = [rresults EXCEPT ![r] = NoResults]
            /\ ridx' = [ridx EXCEPT ![r] = 0]
            /\ rfiles' = [rfiles EXCEPT ![r] = <<>>]
            /\ rpc' = [rpc EXCEPT ![r] = "idle"]
            /\ running' = Nobody

\* json_files = list(pendiente_dir.glob("*.json")); without files the call
\* returns "no_files", else it enters the loop.
RunStart(r) ==
    /\ running = Nobody
    /\ rpc[r] = "idle"
    /\ LET files == Glob({i \in Ids : pendiente[i].kind # "none"})
       IN
         IF files = <<>>
         THEN /\ rresponse' = [NoResults EXCEPT !.status = "no_files"]
              /\ UNCHANGED <<rpc, rfiles, ridx, rresults, running>>
         ELSE /\ rfiles' = [rfiles EXCEPT ![r] = files]
              /\ rpc' = [rpc EXCEPT ![r] = "iter"]
              /\ ridx' = [ridx EXCEPT ![r] = 1]
              /\ rresults' = [rresults EXCEPT
                                ![r] = [NoResults EXCEPT !.total_files = Len(files)]]
              /\ running' = <<"run", r>>
              /\ rresponse' = NoResults
    /\ hresponse' = NoResponse
    /\ UNCHANGED <<stores, hpc, loc>>
    /\ UNCHANGED <<sent, purevars>>

\* payload = json.loads(json_file.read_text()), then the await of the remote
\* call; an exception ends the iteration as failed.
RunRead(r) ==
    /\ rpc[r] = "iter"
    /\ \E rd \in IoOutcomes :
         IF pendiente[JsonFile(r)].kind = "json" /\ rd = "ok"
         THEN /\ RunGoto(r, "remote")
              /\ running' = Nobody
              /\ sent' = Post(<<"run", r>>, JsonLoads(pendiente[JsonFile(r)]))
              /\ UNCHANGED loc
         ELSE /\ EndIteration(r, "failed")
              /\ UNCHANGED sent
    /\ hresponse' = NoResponse
    /\ UNCHANGED <<stores, hpc>>
    /\ UNCHANGED purevars

\* The remote call returns or raises; the call resumes.
RunResume(r) ==
    /\ running = Nobody
    /\ rpc[r] = "remote"
    /\ \E outcome \in RemoteOutcomes :
         LET call == ClientOptimizeLoad(outcome)
         IN IF call.raised
            THEN EndIteration(r, "failed")
            ELSE /\ loc' = [call |-> call, path |-> FALSE]
                 /\ RunGoto(r, "write_procesado")
                 /\ running' = <<"run", r>>
    /\ sent' = Answered(<<"run", r>>)
    /\ hresponse' = NoResponse
    /\ UNCHANGED <<stores, hpc>>
    /\ UNCHANGED purevars

\* Faulty variant of RunWriteProcesado, for comparison: a failing write of the
\* processed copy is ignored and the iteration goes on.
RunWriteProcesadoIgnoresError(r) ==
    /\ rpc[r] = "write_procesado"
    /\ \E rd \in IoOutcomes, w \in IoOutcomes :
         IF pendiente[JsonFile(r)].kind # "none" /\ rd = "ok"
         THEN /\ procesado' = [procesado EXCEPT
                                 ![<<"request", JsonFile(r)>>] = Written(@, pendiente[JsonFile(r)], w)]
              /\ RunGoto(r, "write_csv")
              /\ UNCHANGED <<running, loc>>
         ELSE /\ EndIteration(r, "failed")
              /\ UNCHANGED procesado
    /\ hresponse' = NoResponse
    /\ UNCHANGED <<pendiente, csv, errlog, hpc>>
    /\ UNCHANGED <<sent, purevars>>

\* procesado_path.write_text(json_file.read_text()): the pending file is
\* copied as it is, under its own name.
RunWriteProcesado(r) ==
    /\ rpc[r] = "write_procesado"
    /\ \E rd \in IoOutcomes, w \in IoOutcomes :
         IF pendiente[JsonFile(r)].kind # "none" /\ rd = "ok"
         THEN /\ procesado' = [procesado EXCEPT
                                 ![<<"request", JsonFile(r)>>] = Written(@, pendiente[JsonFile(r)], w)]
              /\ IF w = "ok"
                 THEN /\ RunGoto(r, "write_csv")
                      /\ UNCHANGED <<running, loc>>
                 ELSE EndIteration(r, "failed")
         ELSE /\ EndIteration(r, "failed")
              /\ UNCHANGED procesado
    /\ hresponse' = NoResponse
    /\ UNCHANGED <<pendiente, csv, errlog, hpc>>
    /\ UNCHANGED <<sent, purevars>>

\* convert_cubemaster_response_to_csv(result), then csv_path.write_text(csv_content).
RunWriteCsv(r) ==
    /\ rpc[r] = "write_csv"
    /\ IF ConvertRaises(loc.call.result)
       THEN /\ EndIteration(r, "failed")
            /\ UNCHANGED csv
       ELSE \E w \in IoOutcomes :
              /\ csv' = [csv EXCEPT ![<<"request", JsonFile(r)>>] = Written(@, "written", w)]
              /\ IF w = "ok"
                 THEN /\ RunGoto(r, "unlink")
                      /\ UNCHANGED <<running, loc>>
                 ELSE EndIteration(r, "failed")
    /\ hresponse' = NoResponse
    /\ UNCHANGED <<pendiente, procesado, errlog, hpc>>
    /\ UNCHANGED <<sent, purevars>>

\* Faulty variant of RunUnlink, for comparison: a failing unlink is ignored and the iteration counts
\* as a success.
RunUnlinkIgnoresError(r) ==
    /\ rpc[r] = "unlink"
    /\ \E u \in IoOutcomes :
         /\ pendiente' = IF pendiente[JsonFile(r)].kind # "none" /\ u = "ok"
                         THEN [pendiente EXCEPT ![JsonFile(r)] = NoFile] ELSE pendiente
         /\ EndIteration(r, "success")
    /\ hresponse' = NoResponse
    /\ UNCHANGED <<procesado, csv, errlog, hpc>>
    /\ UNCHANGED <<sent, purevars>>

\* json_file.unlink(), then the iteration's success entry.
RunUnlink(r) ==
    /\ rpc[r] = "unlink"
    /\ \E u \in IoOutcomes :
         IF pendiente[JsonFile(r)].kind # "none" /\ u = "ok"
         THEN /\ pendiente' = [pendiente EXCEPT ![JsonFile(r)] = NoFile]
              /\ EndIteration(r, "success")
         ELSE /\ EndIteration(r, "failed")
              /\ UNCHANGED pendiente
    /\ hresponse' = NoResponse
    /\ UNCHANGED <<procesado, csv, errlog, hpc>>
    /\ UNCHANGED <<sent, purevars>>

(***************************************************************************)
(* The process is killed and restarted: the files stay, every call in      *)
(* flight is gone without a response.                                      *)
(***************************************************************************)
HandlerInFlight(i) == hpc[i] \notin {"new", "rejected", "done"}
RunInFlight(r) == rpc[r] # "idle"

Kill ==
    /\ \/ \E i \in Ids : HandlerInFlight(i)
       \/ \E r \in Runs : RunInFlight(r)
    /\ hpc' = [i \in Ids |-> IF HandlerInFlight(i) THEN "done" ELSE hpc[i]]
    /\ rpc' = [r \in Runs |-> "idle"]
    /\ rfiles' = [r \in Runs |-> <<>>]
    /\ ridx' = [r \in Runs |-> 0]
    /\ rresults' = [r \in Runs |-> NoResults]
    /\ running' = Nobody
    /\ loc' = NoLoc
    /\ hresponse' = NoResponse
    /\ rresponse' = NoResults
    /\ sent' = {}
    /\ UNCHANGED stores
    /\ UNCHANGED purevars

HandlerStep(i) ==
    \/ Submit(i)
    \/ HandlerResume(i)
    \/ HandlerSaveErrorLog(i)
    \/ HandlerMoveWrite(i)
    \/ HandlerMoveUnlink(i)
    \/ HandlerCsv(i)

RunStep(r) ==
    \/ RunStart(r)
    \/ RunRead(r)
    \/ RunResume(r)
    \/ RunWriteProcesado(r)
    \/ RunWriteCsv(r)
    \/ RunUnlink(r)

Next ==
    \/ \E i \in Ids : HandlerStep(i)
    \/ \E r \in Runs : RunStep(r)
    \/ Kill

Spec == Init /\ [][Next]_vars

(***************************************************************************)
(* The batch call alone, on a backlog: json_pendiente/ holds files left by *)
(* earlier requests whose processing failed, or put there by hand, and no  *)
(* /optimize-load request is in flight.                                    *)
(***************************************************************************)
InitBatch ==
    /\ pendiente \in [Ids -> {NoFile, Invalid} \cup
                              {PayloadWithMetadata(Payload(i), i, i) : i \in Ids}]
    /\ \A i \in Ids : pendiente[i].kind = "json" => pendiente[i].request_id = i
    /\ procesado = [n \in ProcesadoNames |-> NoFile]
    /\ csv = [n \in CsvNames |-> "none"]
    /\ errlog = [i \in Ids |-> "none"]
    /\ hpc = [i \in Ids |-> "done"]
    /\ hresponse = NoResponse
    /\ rresponse = NoResults
    /\ running = Nobody
    /\ loc = NoLoc
    /\ rpc = [r \in Runs |-> "idle"]
    /\ rfiles = [r \in Runs |-> <<>>]
    /\ ridx = [r \in Runs |-> 0]
    /\ rresults = [r \in Runs |-> NoResults]
    /\ sent = {}
    /\ NoPureCall

NextBatch ==
    \/ \E r \in Runs : RunStep(r)
    \/ Kill

SpecBatch == InitBatch /\ [][NextBatch]_vars

(***************************************************************************)
(* Two /process-pending-files calls on a backlog.  A call gives up the     *)
(* event loop at its await of the remote call, and the other call may      *)
(* start or resume there: both may hold the same file in json_files.       *)
(***************************************************************************)
OverlapRuns == {1, 2}

InitOverlap ==
    /\ pendiente \in [Ids -> {NoFile} \cup {PayloadWithMetadata(Payload(i), i, i) : i \in Ids}]
    /\ \A i \in Ids : pendiente[i].kind = "json" => pendiente[i].request_id = i
    /\ procesado = [n \in ProcesadoNames |-> NoFile]
    /\ csv = [n \in CsvNames |-> "none"]
    /\ errlog = [i \in Ids |-> "none"]
    /\ hpc = [i \in Ids |-> "done"]
    /\ hresponse = NoResponse
    /\ rresponse = NoResults
    /\ running = Nobody
    /\ loc = NoLoc
    /\ rpc = [r \in OverlapRuns |-> "idle"]
    /\ rfiles = [r \in OverlapRuns |-> <<>>]
    /\ ridx = [r \in OverlapRuns |-> 0]
    /\ rresults = [r \in OverlapRuns |-> NoResults]
    /\ sent = {}
    /\ NoPureCall

NextOverlap == \E r \in OverlapRuns : RunStep(r)

SpecOverlap == InitOverlap /\ [][NextOverlap]_vars

(***************************************************************************)
(* Fairness for the at-least-once claim: a call that can take a step takes *)
(* one (the event loop runs; every remote call returns, the client's       *)
(* timeout is 30 s), /process-pending-files keeps being called, and no     *)
(* read, write, unlink or remote call fails for ever: the step that goes   *)
(* well is taken again and again if it is possible again and again.        *)
(***************************************************************************)
HandlerGoesWell(i) ==
    \/ Submit(i) /\ hpc'[i] = "remote"
    \/ HandlerResume(i) /\ hpc'[i] = "move_write" /\ ~ConvertRaises(loc'.call.result)
    \/ HandlerSaveErrorLog(i)
    \/ HandlerMoveWrite(i) /\ hpc'[i] = "move_unlink"
    \/ HandlerMoveUnlink(i) /\ loc'.path
    \/ HandlerCsv(i) /\ hresponse'.status_code = 200

Fairness ==
    /\ WF_vars(\E i \in Ids : HandlerStep(i))
    /\ \A i \in 1..MaxRequests : SF_vars(HandlerGoesWell(i))
    /\ \A r \in Runs :
         /\ WF_vars(RunStep(r))
         /\ SF_vars(RunStart(r))
         /\ SF_vars(RunRead(r) /\ rpc'[r] = "remote")
         /\ SF_vars(RunResume(r) /\ rpc'[r] = "write_procesado"
                               /\ ~ConvertRaises(loc'.call.result))
         /\ SF_vars(RunWriteProcesado(r) /\ rpc'[r] = "write_csv")
         /\ SF_vars(RunWriteCsv(r) /\ rpc'[r] = "unlink")
         /\ SF_vars(RunUnlink(r) /\ pendiente' # pendiente)

SpecLive == Init /\ [][Next]_vars /\ Fairness

(***************************************************************************)
(* convert_cubemaster_response_to_csv on its own: one call, on a response  *)
(* drawn from the JSON values below.                                       *)
(***************************************************************************)
\* Largest number of elements of a list of the responses.
MaxRows == 2
\* Largest number of top-level keys of an object response.
MaxKeys == 2

\* The pipeline at rest: no file, no call
PipelineIdle ==
    /\ pendiente = [i \in Ids |-> NoFile]
    /\ procesado = [n \in ProcesadoNames |-> NoFile]
    /\ csv = [n \in CsvNames |-> "none"]
    /\ errlog = [i \in Ids |-> "none"]
    /\ hpc = [i \in Ids |-> "new"]
    /\ hresponse = NoResponse
    /\ rresponse = NoResults
    /\ running = Nobody
    /\ loc = NoLoc
    /\ rpc = [r \in Runs |-> "idle"]
    /\ rfiles = [r \in Runs |-> <<>>]
    /\ ridx = [r \in Runs |-> 0]
    /\ rresults = [r \in Runs |-> NoResults]
    /\ sent = {}

\* {"a": 1, "b": {"c": 2}} and {"b": {"c": 2}, "a": 1}
ElemAB == JObj(<<"a", "b">>, <<JNum("1"), JObj(<<"c">>, <<JNum("2")>>)>>)
ElemBA == JObj(<<"b", "a">>, <<JObj(<<"c">>, <<JNum("2")>>), JNum("1")>>)
\* {"b": {"c": 2}}
ElemB == JObj(<<"b">>, <<JObj(<<"c">>, <<JNum("2")>>)>>)
Elements == {ElemAB, ElemBA, ElemB}

\* The sequences of 1..n elements of S
SeqsUpTo(S, n) == UNION {[1..m -> S] : m \in 1..n}

\* The sequences of S without repetition
Injective(S) == {q \in S : \A k, l \in 1..Len(q) : k # l => q[k] # q[l]}

\* Non-empty lists of at most rows distinct objects
RecordLists(rows) == {JList(xs) : xs \in Injective(SeqsUpTo(Elements, rows))}

\* Values that make no collection key: a scalar, an empty list, a list of
\* scalars, an object
PlainValues ==
    {JStr("x"), JList(<<>>), JList(<<JStr("p"), JStr("q")>>), JObj(<<"k">>, <<JStr("v")>>)}

ResponseKeys == {"items", "boxes", "ctx"}

\* Objects of at most keys entries
ResponseObjects(rows, keys) ==
    {JObj(<<>>, <<>>)}
    \cup UNION {{JObj(ks, vs) : ks \in Injective([1..m -> ResponseKeys]),
                                vs \in [1..m -> RecordLists(rows) \cup PlainValues]} :
                 m \in 1..keys}

\* Lists of at most rows objects and scalars
ResponseLists(rows) ==
    {JList(<<>>)}
    \cup {JList(xs) : xs \in SeqsUpTo(Elements \cup {JObj(<<>>, <<>>), JStr("p")}, rows)}

\* The responses tried: scalars, lists and objects
Responses(rows, keys) ==
    {JStr("x"), JNum("7")}
    \cup ResponseLists(rows)
    \cup ResponseObjects(rows, keys)

InitConvert ==
    /\ PipelineIdle
    /\ conv \in {[pc |-> "input", response_data |-> d, result |-> NoConversion] : d \in Responses(MaxRows, MaxKeys)}
    /\ sheet = [pc |-> "none"]
    /\ xl = [pc |-> "none"]

\* csv_content, row_count = convert_cubemaster_response_to_csv(result)
Convert ==
    /\ conv.pc = "input"
    /\ conv' = [conv EXCEPT !.pc = "done",
                            !.result = ConvertCubemasterResponseToCsv(conv.response_data)]
    /\ UNCHANGED <<pipevars, sheet, xl>>

NextConvert == Convert

SpecConvert == InitConvert /\ [][NextConvert]_vars

(***************************************************************************)
(* excel_transformer.sanitize_sheet_name on its own.  A name is the        *)
(* sequence of its characters.                                             *)
(***************************************************************************)
\* The characters re.sub(r'[\\/*?:\[\]]', '_', name) replaces
ForbiddenChars == {"\\", "/", "*", "?", ":", "[", "]"}
\* The longest sheet name Excel takes
MaxSheetName == 31

\* Faulty variant of SanitizeSheetName, for comparison: the forbidden
\* characters are removed.
SanitizeSheetNameRemoves(name) ==
    LET kept == SelectSeq(name, LAMBDA ch : ch \notin ForbiddenChars)
    IN IF Len(kept) > MaxSheetName THEN SubSeq(kept, 1, MaxSheetName) ELSE kept

\* sanitize_sheet_name(name)
SanitizeSheetName(name) ==
    LET replaced == [k \in 1..Len(name) |-> IF name[k] \in ForbiddenChars THEN "_" ELSE name[k]]
    IN IF Len(replaced) > MaxSheetName THEN SubSeq(replaced, 1, MaxSheetName) ELSE replaced

\* Longest run of arbitrary characters at each end of the names tried.
MaxEdge == 2
\* The characters tried: a letter, the underscore and forbidden characters
NameChars == {"A", "_", "/", "["}
\* n letters
Letters(n) == [k \in 1..n |-> "A"]
\* Names of up to MaxEdge characters, and names of about MaxSheetName
\* characters: letters between two such ends
SheetNames ==
    LET ends == {<<>>} \cup SeqsUpTo(NameChars, MaxEdge)
    IN {h \o Letters(n) \o t : h \in ends, t \in ends,
                               n \in {0, MaxSheetName - 3, MaxSheetName - 1}}

InitSanitize ==
    /\ PipelineIdle
    /\ conv = [pc |-> "none"]
    /\ sheet \in {[pc |-> "input", name |-> n, result |-> <<>>, again |-> <<>>] : n \in SheetNames}
    /\ xl = [pc |-> "none"]

\* result = sanitize_sheet_name(name)
Sanitize ==
    /\ sheet.pc = "input"
    /\ sheet' = [sheet EXCEPT !.pc = "once", !.result = SanitizeSheetName(sheet.name)]
    /\ UNCHANGED <<pipevars, conv, xl>>

\* again = sanitize_sheet_name(result)
SanitizeAgain ==
    /\ sheet.pc = "once"
    /\ sheet' = [sheet EXCEPT !.pc = "twice", !.again = SanitizeSheetName(sheet.result)]
    /\ UNCHANGED <<pipevars, conv, xl>>

NextSanitize == Sanitize \/ SanitizeAgain

SpecSanitize == InitSanitize /\ [][NextSanitize]_vars

(***************************************************************************)
(* excel_transformer.transformar_json_para_excel on its own: one call, on  *)
(* a response whose filledContainers is drawn from the containers below.   *)
(* A container is [sequence, name, manifest]; a manifest item is "cargo"   *)
(* (an object) or "text" (not an object: item.get raises AttributeError).  *)
(* A sheet is [name, columns, rows], rows being the number of data rows.   *)
(* xl holds the call's arguments and locals: filled_containers, the loop's *)
(* position pos, the writer's workbook book, stats, the sheet_name of each *)
(* container written so far (names), what is at excel_path (file) and the  *)
(* exception raised (error).                                               *)
(***************************************************************************)
\* Largest number of filledContainers of the responses tried.
MaxContainers == 2

\* The characters of "container_" and of "summary"
ContainerPrefix == <<"c", "o", "n", "t", "a", "i", "n", "e", "r", "_">>
SummaryName == <<"s", "u", "m", "m", "a", "r", "y">>

\* Container names: two that differ in a forbidden character only, two of 20
\* characters that differ in the last one only
ContainerNames == {<<"/">>, <<"[">>, Letters(19) \o <<"A">>, Letters(19) \o <<"_">>}
Containers ==
    {[sequence |-> q, name |-> n, manifest |-> m] :
        q \in {"1", "2"}, n \in ContainerNames, m \in {<<>>, <<"cargo">>, <<"text">>}}
FilledContainers == {<<>>} \cup SeqsUpTo(Containers, MaxContainers)

\* sheet_name = sanitize_sheet_name(f"container_{sequence}_{name}")
SheetName(container) ==
    SanitizeSheetName(ContainerPrefix \o <<container.sequence, "_">> \o container.name)

\* criar_planilha_summary: one row of the ten summary fields
CriarPlanilhaSummary ==
    [columns |-> <<"cargoesLoaded", "piecesLoaded", "cargoesLeft", "piecesLeft",
                   "unitloadsLoaded", "volumeLoaded", "weightLoaded", "priceLoaded",
                   "containersLoaded", "containersLeft">>,
     rows |-> 1]

\* criar_planilha_container: pd.DataFrame(rows), one row per manifest item;
\* no item, no column
CriarPlanilhaContainer(container) ==
    [raised |-> \E k \in 1..Len(container.manifest) : container.manifest[k] # "cargo",
     columns |-> IF container.manifest = <<>> THEN <<>>
                 ELSE <<"sequence", "cargoName", "qty", "pieces", "length", "width",
                        "height", "weight">>,
     rows |-> Len(container.manifest)]

\* Faulty variant of ToExcel, for comparison: a sheet is created for every
\* table.
ToExcelNewSheet(book, sheet_name, df) ==
    Append(book, [name |-> sheet_name, columns |-> df.columns, rows |-> df.rows])

\* df.to_excel(writer, sheet_name=sheet_name, index=False): the writer takes
\* the sheet of that name if the workbook has one and writes the cells over
\* it, and creates the sheet otherwise
ToExcel(book, sheet_name, df) ==
    IF \E k \in 1..Len(book) : book[k].name = sheet_name
    THEN [k \in 1..Len(book) |->
            IF book[k].name = sheet_name
            THEN [name |-> sheet_name,
                  columns |-> IF df.columns = <<>> THEN book[k].columns ELSE df.columns,
                  rows |-> IF df.rows > book[k].rows THEN df.rows ELSE book[k].rows]
            ELSE book[k]]
    ELSE Append(book, [name |-> sheet_name, columns |-> df.columns, rows |-> df.rows])

\* What is at excel_path: nothing, an empty file, or a saved workbook
NoXlFile == [kind |-> "none", sheets |-> <<>>]
EmptyXlFile == [kind |-> "empty", sheets |-> <<>>]
SavedXlFile(book) == [kind |-> "xlsx", sheets |-> book]

NoStats ==
    [total_sheets |-> 0, summary_created |-> FALSE, containers_processed |-> 0,
     total_cargo_items |-> 0]

InitExcel ==
    /\ PipelineIdle
    /\ conv = [pc |-> "none"]
    /\ sheet = [pc |-> "none"]
    /\ xl \in {[pc |-> "start", filled_containers |-> cs, pos |-> 0, book |-> <<>>,
                names |-> <<>>, file |-> NoXlFile, stats |-> NoStats, error |-> ""] :
                  cs \in FilledContainers}

\* with pd.ExcelWriter(excel_path, engine='openpyxl') as writer: the writer
\* opens excel_path for writing, at once ("created") or, with a pandas that
\* opens it when saving, later ("deferred"); or the open fails
XlOpen ==
    /\ xl.pc = "start"
    /\ \E o \in {"created", "deferred", "error"} :
         xl' = CASE o = "created" -> [xl EXCEPT !.pc = "summary", !.file = EmptyXlFile]
                 [] o = "deferred" -> [xl EXCEPT !.pc = "summary"]
                 [] o = "error" -> [xl EXCEPT !.pc = "raised", !.error = "OSError"]
    /\ UNCHANGED <<pipevars, conv, sheet>>

\* The summary sheet
XlSummary ==
    /\ xl.pc = "summary"
    /\ xl' = [xl EXCEPT !.pc = "containers", !.pos = 1,
                        !.book = ToExcel(@, SummaryName, CriarPlanilhaSummary),
                        !.stats = [@ EXCEPT !.summary_created = TRUE,
                                            !.total_sheets = @ + 1]]
    /\ UNCHANGED <<pipevars, conv, sheet>>

\* What leaving the with block leaves at excel_path: the writer's __exit__
\* closes the writer, which saves the workbook as it is, after an exception
\* too; a save that fails leaves the file as the open left it
XlSaved(w) == IF w = "ok" THEN SavedXlFile(xl.book) ELSE xl.file

\* One iteration of the loop over filled_containers.  An exception leaves
\* the with block, and then the function
XlContainer ==
    /\ xl.pc = "containers"
    /\ xl.pos <= Len(xl.filled_containers)
    /\ LET container == xl.filled_containers[xl.pos]
           df_container == CriarPlanilhaContainer(container)
       IN IF df_container.raised
          THEN \E w \in IoOutcomes :
                 xl' = [xl EXCEPT !.pc = "raised", !.error = "AttributeError",
                                  !.file = XlSaved(w)]
          ELSE xl' = [xl EXCEPT !.pos = @ + 1,
                                !.book = ToExcel(@, SheetName(container), df_container),
                                !.names = Append(@, SheetName(container)),
                                !.stats = [@ EXCEPT !.containers_processed = @ + 1,
                                                    !.total_cargo_items = @ + df_container.rows,
                                                    !.total_sheets = @ + 1]]
    /\ UNCHANGED <<pipevars, conv, sheet>>

\* The end of the with block: the workbook is saved, and the function
\* returns excel_path and stats
XlClose ==
    /\ xl.pc = "containers"
    /\ xl.pos > Len(xl.filled_containers)
    /\ \E w \in IoOutcomes :
         xl' = IF w = "ok"
               THEN [xl EXCEPT !.pc = "returned", !.file = XlSaved(w)]
               ELSE [xl EXCEPT !.pc = "raised", !.error = "OSError"]
    /\ UNCHANGED <<pipevars, conv, sheet>>

NextExcel == XlOpen \/ XlSummary \/ XlContainer \/ XlClose

SpecExcel == InitExcel /\ [][NextExcel]_vars

(***************************************************************************)
(* Vocabulary of the claims.                                               *)
(***************************************************************************)
\* The record save_to_json_pendiente wrote for request i
PendingRecord(i) == PayloadWithMetadata(Payload(i), i, i)
\* Request i's payload can be read from json_pendiente/
InPending(i) == pendiente[i].kind = "json" /\ pendiente[i].payload = Payload(i)
\* Request i's payload can be read from json_procesado/
InProcessed(i) ==
    \E n \in {<<"processed", i>>, <<"request", i>>} :
        procesado[n].kind = "json" /\ procesado[n].payload = Payload(i)
\* save_to_json_pendiente has returned for request i
Accepted(i) == hpc[i] \notin {"new", "rejected"}
\* A CSV has been written for request i
Exported(i) == csv[<<"result", i>>] = "written" \/ csv[<<"request", i>>] = "written"
\* The positions of the entries of a details list with the given status
EntriesWith(details, status) == {k \in 1..Len(details) : details[k].status = status}

(***************************************************************************)
(* C1.  Crash safety: once save_to_json_pendiente has returned for a       *)
(* request, in every reachable state, the states left by a kill between    *)
(* two file operations included, its payload is in json_pendiente/ or in   *)
(* json_procesado/; and a pending file is unlinked only in a state where   *)
(* the processed copy is already written.                                  *)
(***************************************************************************)
C1_CrashSafety ==
    /\ [](\A i \in Ids : Accepted(i) => InPending(i) \/ InProcessed(i))
    /\ [][\A i \in Ids :
            (pendiente[i].kind = "json" /\ pendiente'[i].kind = "none") => InProcessed(i)]_vars

\* A handler that is gone (killed or returned) between the write of the
\* processed copy and the unlink of the pending one, with no CSV written
C1_Witness ==
    \E i \in Ids :
        /\ hpc[i] = "done"
        /\ InPending(i)
        /\ procesado[<<"processed", i>>].kind = "json"
        /\ ~Exported(i)

(***************************************************************************)
(* C2.  Never delete-before-write: when converting or writing the CSV      *)
(* fails for an item, in optimize_container_load and in                    *)
(* process_pending_files, the item's pending file is still there after the *)
(* failing step and the failure is reported; and a pending file is         *)
(* unlinked only when the item's CSV has been written.                     *)
(***************************************************************************)
C2_NeverDeleteBeforeWrite ==
    [][/\ \A i \in Ids :
            (hpc[i] = "csv" /\ hresponse'.to = i /\ hresponse'.status_code # 200)
            => (InPending(i)' /\ hresponse'.status_code >= 400)
       /\ \A r \in Runs :
            (rpc[r] = "write_csv" /\ (rpc'[r] = "iter" \/ rresponse'.status = "completed"))
            => /\ pendiente'[JsonFile(r)] = pendiente[JsonFile(r)]
               /\ pendiente[JsonFile(r)].kind = "json"
               /\ rresults[r].failed + 1 =
                    IF rpc'[r] = "iter" THEN rresults'[r].failed ELSE rresponse'.failed
       /\ \A i \in Ids :
            (pendiente[i].kind = "json" /\ pendiente'[i].kind = "none") => Exported(i)]_vars

C4_RemoteFailureLeavesStores ==
    [][/\ \A i \in Ids :
            (hpc[i] \in {"remote", "save_error_log"} /\ hpc'[i] \in {"save_error_log", "done"})
            => UNCHANGED <<pendiente, procesado, csv>>
       /\ \A r \in Runs :
            (rpc[r] = "remote" /\ rpc'[r] \in {"iter", "idle"})
            => UNCHANGED <<pendiente, procesado, csv>>]_vars

\* The handler has answered a remote failure; the item is pending, untouched
C4_Witness ==
    \E i \in Ids :
        /\ hresponse.to = i
        /\ hresponse.detail = "Erro no processamento"
        /\ pendiente[i] = PendingRecord(i)
        /\ ~InProcessed(i)
        /\ ~Exported(i)

(***************************************************************************)
(* C5.  At-least-once delivery: under Fairness, every request accepted by  *)
(* save_to_json_pendiente eventually has a CSV written for it.             *)
(***************************************************************************)
C5_AtLeastOnce == \A i \in Ids : Accepted(i) ~> Exported(i)

(***************************************************************************)
(* C6.  process_pending_files never aborts on a failing item: while the    *)
(* loop runs, results holds one entry for each file before the current     *)
(* one, in the order of json_files; the response it returns holds one      *)
(* entry per enumerated file and total_files = processed + failed.         *)
(***************************************************************************)
C6_BatchVisitsEveryItem ==
    /\ \A r \in Runs :
         RunInFlight(r) =>
           LET res == rresults[r]
           IN /\ res.total_files = Len(rfiles[r])
              /\ Len(res.details) = ridx[r] - 1
              /\ \A k \in 1..Len(res.details) : res.details[k].file = rfiles[r][k]
              /\ res.processed = Cardinality(EntriesWith(res.details, "success"))
              /\ res.failed = Cardinality(EntriesWith(res.details, "failed"))
    /\ rresponse.status = "completed" =>
         /\ rresponse.total_files >= 1
         /\ Len(rresponse.details) = rresponse.total_files
         /\ \A k, l \in 1..Len(rresponse.details) :
              k < l => rresponse.details[k].file < rresponse.details[l].file
         /\ rresponse.processed = Cardinality(EntriesWith(rresponse.details, "success"))
         /\ rresponse.failed = Cardinality(EntriesWith(rresponse.details, "failed"))
         /\ rresponse.total_files = rresponse.processed + rresponse.failed
    /\ rresponse.status = "no_files" =>
         /\ rresponse.total_files = 0
         /\ rresponse.processed = 0
         /\ rresponse.failed = 0

\* Three pending items, the second fails before anything is written for it
\* (as when its remote call fails): total 3, processed 2, failed 1
C6_Witness ==
    /\ rresponse.status = "completed"
    /\ rresponse.total_files = 3
    /\ rresponse.processed = 2
    /\ rresponse.failed = 1
    /\ rresponse.details = <<[file |-> 1, status |-> "success"],
                             [file |-> 2, status |-> "failed"],
                             [file |-> 3, status |-> "success"]>>
    /\ pendiente[2] = PendingRecord(2)
    /\ ~InProcessed(2)

(***************************************************************************)
(* C7.  At the end of a process_pending_files call that ran alone, every   *)
(* file reported "success" has its copy in json_procesado/ and is gone     *)
(* from json_pendiente/, and every file reported "failed" is still in      *)
(* json_pendiente/.                                                        *)
(***************************************************************************)
C7_BatchReportMatchesStores ==
    rresponse.status = "completed" =>
        \A k \in 1..Len(rresponse.details) :
            LET f == rresponse.details[k].file
            IN IF rresponse.details[k].status = "success"
               THEN /\ procesado[<<"request", f>>].kind = "json"
                    /\ InProcessed(f)
                    /\ pendiente[f].kind = "none"
               ELSE pendiente[f].kind # "none"

C7_Witness ==
    /\ rresponse.status = "completed"
    /\ EntriesWith(rresponse.details, "success") # {}
    /\ \E k \in EntriesWith(rresponse.details, "failed") :
         pendiente[rresponse.details[k].file].kind = "json"

(***************************************************************************)
(* C8.  Remote error propagation in optimize_container_load: a remote      *)
(* status s with 400 <= s < 500 gives a response with status s; a remote   *)
(* status >= 500, a connection error or a timeout gives status 502.        *)
(***************************************************************************)
C8_RemoteStatusPropagated ==
    [][\A i \in Ids :
          (hpc[i] = "save_error_log" /\ hresponse'.to = i)
          => hresponse'.status_code =
                IF loc.call.code >= 400 /\ loc.call.code < 500 THEN loc.call.code ELSE 502]_vars

(***************************************************************************)
(* C9.  Every failure response of optimize_container_load carries the      *)
(* request's request_id and timestamp.                                     *)
(***************************************************************************)
C9_FailureResponsesCarryIdentity ==
    \A i \in Ids :
        (hresponse.to = i /\ hresponse.status_code # 200)
        => (hresponse.request_id = i /\ hresponse.timestamp = i)

(***************************************************************************)
(* C10.  A failing save_error_log is not fatal: the response for the       *)
(* remote failure is the one returned when the error record is written.    *)
(***************************************************************************)
C10_ErrorLogFailureIgnored ==
    [][\A i \in Ids :
          (hpc[i] = "save_error_log" /\ hresponse'.to = i)
          => hresponse' = [RemoteErrorResponse(loc.call, i, i) EXCEPT !.to = i]]_vars

(***************************************************************************)
(* C11.  Every failed processing attempt of a persisted item writes the    *)
(* item's error record error_<ts>_<id>.log and leaves the item in          *)
(* json_pendiente/: in optimize_container_load, when the remote call, the  *)
(* conversion or the CSV write fails (the case where the write of the      *)
(* error record itself fails set aside), and in process_pending_files,     *)
(* when an iteration ends as failed.                                       *)
(***************************************************************************)
C11_FailedAttemptsLeaveErrorRecord ==
    [][/\ \A i \in Ids :
            (/\ hpc[i] \in {"save_error_log", "csv"}
             /\ hresponse'.to = i
             /\ hresponse'.status_code # 200
             /\ hresponse'.detail # UnhandledResponse.detail)
            => (errlog'[i] = "written" /\ InPending(i)')
       /\ \A r \in Runs :
            (/\ RunInFlight(r)
             /\ \/ rpc'[r] = "iter" /\ rresults'[r].failed = rresults[r].failed + 1
                \/ rresponse'.status = "completed" /\ rresponse'.failed = rresults[r].failed + 1)
            => /\ errlog'[JsonFile(r)] = "written"
               /\ pendiente'[JsonFile(r)] = pendiente[JsonFile(r)]]_vars

(***************************************************************************)
(* Vocabulary of the conversion claims.                                    *)
(***************************************************************************)
Converted == conv.pc = "done"
\* The call returned a frame
Returned == conv.pc = "done" /\ ~conv.result.raised
\* The collection keys of the response: the keys of its candidate positions
CollectionKeys(response_data) ==
    IF response_data.t = "obj"
    THEN {response_data.keys[k] : k \in CandidateKeys(response_data)}
    ELSE {}
\* The value of column c in row r of a frame
CellOf(df, r, c) == df.rows[r][CHOOSE k \in 1..Len(df.columns) : df.columns[k] = c]
\* Whether a frame has a column labelled c
HasColumn(df, c) == \E k \in 1..Len(df.columns) : df.columns[k] = c
\* The position of label c in a sequence of labels, 0 if absent
PosIn(labels, c) ==
    IF \E k \in 1..Len(labels) : labels[k] = c
    THEN CHOOSE k \in 1..Len(labels) : labels[k] = c
    ELSE 0
\* The dotted paths of an object's leaves, in the order of the document
PathsOf(obj) == LET d == NormaliseJson(obj, "", <<>>) IN [k \in 1..Len(d) |-> d[k].col]
\* The context entries of a response: its top-level entries that are not
\* collection keys, in the order of the document
ContextOf(response_data) ==
    SelectItems(response_data,
                (1..Len(response_data.keys)) \ CandidateKeys(response_data), 1)

(***************************************************************************)
(* C12.  For an object whose top-level keys hold only empty arrays, such   *)
(* as {"items": []}, the conversion returns the placeholder frame: one     *)
(* row, whose only column is message.                                      *)
(***************************************************************************)
C12_EmptyArraysGivePlaceholder ==
    (/\ Converted
     /\ conv.response_data.t = "obj"
     /\ Len(conv.response_data.keys) >= 1
     /\ \A k \in 1..Len(conv.response_data.vals) : conv.response_data.vals[k] = JList(<<>>))
    => (~conv.result.raised /\ conv.result.df = PlaceholderFrame)

(***************************************************************************)
(* C13.  For every JSON input the conversion returns a frame with at least *)
(* one row, row_count being the number of its rows; whenever               *)
(* _response_to_dataframe gave no row, as for [], the frame is the         *)
(* placeholder frame.                                                      *)
(***************************************************************************)
C13_AtLeastOneRow ==
    Converted =>
        /\ ~conv.result.raised
        /\ conv.result.row_count >= 1
        /\ conv.result.row_count = Len(conv.result.df.rows)
        /\ (conv.response_data = JList(<<>>)
            \/ Len(ResponseToDataframe(conv.response_data).df.rows) = 0)
           => conv.result.df = PlaceholderFrame

(***************************************************************************)
(* C14.  For an object with k >= 1 collection keys the conversion gives k  *)
(* tables, one per collection key K: it has one row per element of K and   *)
(* only columns prefixed with K. and context columns.                      *)
(***************************************************************************)
C14_OneTablePerCollectionKey ==
    (Returned /\ CollectionKeys(conv.response_data) # {}) =>
        LET response_data == conv.response_data
            tables == <<conv.result.df>>
            context_columns == {ContextFlat(response_data)[c].col :
                                  c \in 1..Len(ContextFlat(response_data))}
            KeyColumns(k) ==
                {response_data.keys[k] \o "." \o PathsOf(response_data.vals[k].vals[e])[c] :
                   <<e, c>> \in {x \in (1..Len(response_data.vals[k].vals)) \X (1..4) :
                        x[2] <= Len(PathsOf(response_data.vals[k].vals[x[1]]))}}
        IN /\ Len(tables) = Cardinality(CollectionKeys(response_data))
           /\ \A k \in CandidateKeys(response_data) :
                \E t \in 1..Len(tables) :
                    /\ Len(tables[t].rows) = Len(response_data.vals[k].vals)
                    /\ \A c \in 1..Len(tables[t].columns) :
                         tables[t].columns[c] \in KeyColumns(k) \cup context_columns

(***************************************************************************)
(* C15.  Context broadcast: for an object with at least one collection     *)
(* key the conversion does not fail, and every context field (flattened    *)
(* to dotted paths when it is an object) is a column that holds the same   *)
(* value, serialized when it is a list, on every row.                      *)
(***************************************************************************)
C15_ContextBroadcast ==
    (Converted /\ CollectionKeys(conv.response_data) # {}) =>
        /\ ~conv.result.raised
        /\ \A c \in 1..Len(ContextFlat(conv.response_data)) :
             LET entry == ContextFlat(conv.response_data)[c]
             IN /\ HasColumn(conv.result.df, entry.col)
                /\ \A r \in 1..Len(conv.result.df.rows) :
                     CellOf(conv.result.df, r, entry.col) = SerializeCell(entry.val)

(***************************************************************************)
(* C16.  For an object with one collection key K and scalar context        *)
(* fields: one row per element of K, in the order of the elements, each    *)
(* holding the element's leaves under their K.-prefixed dotted paths and   *)
(* the context values; the element columns come first, in the order of     *)
(* their first appearance, and the context columns last, in the order of   *)
(* the document.  scalars_first tells how an element lists its columns:    *)
(* FALSE, as claimed, in the order of the document; TRUE, as amended, its  *)
(* top-level fields that are not objects, then the paths under its         *)
(* object-valued fields.                                                   *)
(***************************************************************************)
OneKeyScalarContext(response_data) ==
    /\ response_data.t = "obj"
    /\ Cardinality(CandidateKeys(response_data)) = 1
    /\ \A k \in 1..Len(response_data.keys) :
         k \notin CandidateKeys(response_data) => response_data.vals[k].t \in {"str", "num"}

\* Whether element e lists path p before path q
ListsBefore(e, p, q, scalars_first) ==
    LET top(x) == \E k \in 1..Len(e.keys) : e.keys[k] = x /\ e.vals[k].t # "obj"
    IN /\ PosIn(PathsOf(e), p) > 0
       /\ PosIn(PathsOf(e), q) > 0
       /\ IF scalars_first /\ top(p) # top(q)
          THEN top(p)
          ELSE PosIn(PathsOf(e), p) < PosIn(PathsOf(e), q)

ColumnsAndRowsInOrder(response_data, df, scalars_first) ==
    LET kpos == CHOOSE k \in 1..Len(response_data.keys) : k \in CandidateKeys(response_data)
        key == response_data.keys[kpos]
        elems == response_data.vals[kpos].vals
        context == ContextOf(response_data)
        paths == UNION {{PathsOf(elems[e])[c] : c \in 1..Len(PathsOf(elems[e]))} :
                          e \in 1..Len(elems)}
        First(p) == CHOOSE e \in 1..Len(elems) :
                        /\ PosIn(PathsOf(elems[e]), p) > 0
                        /\ \A f \in 1..(e - 1) : PosIn(PathsOf(elems[f]), p) = 0
        Col(p) == PosIn(df.columns, key \o "." \o p)
    IN /\ Len(df.rows) = Len(elems)
       /\ Len(df.columns) = Cardinality(paths) + Len(context.keys)
       /\ \A p \in paths : Col(p) \in 1..Cardinality(paths)
       /\ \A p, q \in paths :
            Col(p) < Col(q) <=>
                \/ First(p) < First(q)
                \/ First(p) = First(q) /\ ListsBefore(elems[First(p)], p, q, scalars_first)
       /\ \A c \in 1..Len(context.keys) :
            df.columns[Cardinality(paths) + c] = context.keys[c]
       /\ \A r \in 1..Len(elems) :
            /\ \A c \in 1..Len(context.keys) :
                 df.rows[r][Cardinality(paths) + c] = context.vals[c]
            /\ \A p \in paths :
                 df.rows[r][Col(p)] =
                    LET leaves == NormaliseJson(elems[r], "", <<>>)
                    IN IF PosIn(PathsOf(elems[r]), p) > 0
                       THEN SerializeCell(leaves[PosIn(PathsOf(elems[r]), p)].val)
                       ELSE NaN

\* C16 as claimed: every element lists its columns in the order of the document
C16_ColumnsInDocumentOrder ==
    (Returned /\ OneKeyScalarContext(conv.response_data))
    => ColumnsAndRowsInOrder(conv.response_data, conv.result.df, FALSE)

\* C16, amended: an element lists its top-level fields that are not objects
\* first, then the dotted paths under its object-valued fields; the columns
\* are in the order of their first appearance over the elements so listed
C16_ColumnsScalarsFirst ==
    (Returned /\ OneKeyScalarContext(conv.response_data))
    => ColumnsAndRowsInOrder(conv.response_data, conv.result.df, TRUE)

\* {"items": [{"a": 1, "b": {"c": 2}}], "ctx": "x"} gives the columns
\* items.a, items.b.c, ctx and the row 1, 2, x
C16_Witness ==
    /\ Returned
    /\ conv.response_data = JObj(<<"items", "ctx">>, <<JList(<<ElemAB>>), JStr("x")>>)
    /\ conv.result.df = [columns |-> <<"items.a", "items.b.c", "ctx">>,
                         rows |-> <<<<JNum("1"), JNum("2"), JStr("x")>>>>]
    /\ conv.result.row_count = 1

(***************************************************************************)
(* C17.  sanitize_sheet_name: the result has at most 31 characters, none   *)
(* of them forbidden; it is the first min(len, 31) characters of the name  *)
(* with each forbidden character replaced by _; and sanitizing the result  *)
(* again returns it unchanged.                                             *)
(***************************************************************************)
C17_SanitizeSheetName ==
    /\ sheet.pc \in {"once", "twice"} =>
         /\ Len(sheet.result) <= 31
         /\ \A k \in 1..Len(sheet.result) : sheet.result[k] \notin ForbiddenChars
         /\ Len(sheet.result) = IF Len(sheet.name) < 31 THEN Len(sheet.name) ELSE 31
         /\ \A k \in 1..Len(sheet.result) :
              sheet.result[k] = IF sheet.name[k] \in ForbiddenChars THEN "_" ELSE sheet.name[k]
    /\ sheet.pc = "twice" => sheet.again = sheet.result

\* A name of more than 31 characters with forbidden characters before and
\* after the 31st, sanitized twice
C17_Witness ==
    /\ sheet.pc = "twice"
    /\ Len(sheet.name) > 31
    /\ sheet.name[1] \in ForbiddenChars
    /\ sheet.name[Len(sheet.name)] \in ForbiddenChars
    /\ sheet.result[1] = "_"
    /\ Len(sheet.result) = 31

(***************************************************************************)
(* Vocabulary of the export claims.                                        *)
(***************************************************************************)
\* Whether the elements of a sequence are pairwise distinct
PairwiseDistinct(q) == \A k, l \in 1..Len(q) : k # l => q[k] # q[l]
\* The set of the elements of a sequence
Range(q) == {q[k] : k \in 1..Len(q)}

C19_ExportAtomic ==
    /\ xl.pc = "raised" => xl.file.kind = "none"
    /\ xl.pc \in {"start", "summary", "containers", "returned", "raised"} =>
         (xl.file.kind # "none" =>
            /\ xl.file.kind = "xlsx"
            /\ xl.pc = "returned"
            /\ Len(xl.file.sheets) >= 1)

(***************************************************************************)
(* C20.  A table with no column is rejected with EmptyTableError: no sheet *)
(* without columns is written, and the export of a container whose         *)
(* manifest is empty or missing fails with that error.                     *)
(***************************************************************************)
C20_EmptyTableRejected ==
    /\ xl.pc \in {"containers", "returned", "raised"} =>
         \A k \in 1..Len(xl.book) : xl.book[k].columns # <<>>
    /\ \A k \in 1..Len(xl.filled_containers) :
         (xl.pc # "start" /\ xl.pos > k /\ xl.filled_containers[k].manifest = <<>>)
         => (xl.pc = "raised" /\ xl.error = "EmptyTableError")

(***************************************************************************)
(* Vocabulary of the claims on the two stores.                             *)
(***************************************************************************)
\* optimize_container_load returns its response for request i in this step
HandlerReturns(i) == HandlerInFlight(i) /\ hresponse'.to = i
\* An iteration of the loop of call r ends in this step: its entry is
\* appended to results["details"], or the call returns its response
IterationEnds(r) ==
    /\ RunInFlight(r)
    /\ \/ Len(rresults'[r].details) = Len(rresults[r].details) + 1
       \/ rresponse'.status = "completed"

(***************************************************************************)
(* C21.  Exactly one store outside an advance: in the state left by the    *)
(* end of a processing attempt of an item, the return of                   *)
(* optimize_container_load or the end of one iteration of                  *)
(* process_pending_files, with a success or with a failure, the item is    *)
(* not both in json_pendiente/ and in json_procesado/.                     *)
(***************************************************************************)
C21_OneStoreAfterAttempt ==
    [][/\ \A i \in Ids :
            HandlerReturns(i) => ~(InPending(i)' /\ InProcessed(i)')
       /\ \A r \in Runs, i \in Ids :
            (IterationEnds(r) /\ JsonFile(r) = i)
            => ~(InPending(i)' /\ InProcessed(i)')]_vars

(***************************************************************************)
(* C23.  Stage consistency of the stores: every record of json_pendiente/  *)
(* has status "pending", and every record of json_procesado/, written by   *)
(* move_to_json_procesado or by process_pending_files, has status          *)
(* "processed"; no record with status "pending" is in json_procesado/.     *)
(***************************************************************************)
C23_StoresCarryStage ==
    /\ \A i \in Ids : pendiente[i].kind = "json" => pendiente[i].status = "pending"
    /\ \A n \in ProcesadoNames : procesado[n].kind = "json" => procesado[n].status = "processed"

(***************************************************************************)
(* C25.  A /process-pending-files call interleaved with an                 *)
(* optimize_container_load in flight for the same item: once the item is   *)
(* persisted it is never absent from both json_pendiente/ and              *)
(* json_procesado/, and whichever of the two unlinks the pending file has  *)
(* written its processed copy of the item before: the handler              *)
(* processed_<ts>_<id>.json, the batch call its copy under the pending     *)
(* file's name.                                                            *)
(***************************************************************************)
C25_DeleteAfterOwnCopy ==
    /\ [](\A i \in Ids : Accepted(i) => InPending(i) \/ InProcessed(i))
    /\ [][\A i \in Ids :
            (pendiente[i].kind = "json" /\ pendiente'[i].kind = "none")
            => \/ /\ running = <<"handler", i>>
                  /\ procesado[<<"processed", i>>] = ProcessedData(PendingRecord(i))
               \/ \E r \in Runs :
                     /\ running = <<"run", r>>
                     /\ JsonFile(r) = i
                     /\ procesado[<<"request", i>>] = PendingRecord(i)]_vars

\* The batch call has unlinked the pending file of a request whose handler
\* still awaits the remote call
C25_Witness ==
    \E i \in Ids :
        /\ hpc[i] = "remote"
        /\ pendiente[i].kind = "none"
        /\ procesado[<<"request", i>>] = PendingRecord(i)

(***************************************************************************)
(* C22.  Persist and replay: for a request that save_to_json_pendiente     *)
(* persisted and whose remote call failed (its error record is written),   *)
(* the body a later /process-pending-files call posts to the remote        *)
(* service for the request's file is the payload the caller submitted,     *)
(* the body optimize_container_load posted.                                *)
(***************************************************************************)
C22_ReplaySendsSubmittedPayload ==
    \A r \in Runs, i \in Ids, m \in sent :
        (m.by = <<"run", r>> /\ JsonFile(r) = i /\ Accepted(i) /\ errlog[i] = "written")
        => m.body = Payload(i)

(***************************************************************************)
(* C24.  Two overlapping /process-pending-files calls: in the state where  *)
(* a call returns and no other call is in flight, every item the call's    *)
(* response reports as failed is still in json_pendiente/, to be taken     *)
(* again by a later call.                                                  *)
(***************************************************************************)
C24_FailedStaysClaimable ==
    (rresponse.status = "completed" /\ \A r \in OverlapRuns : ~RunInFlight(r))
    => \A k \in EntriesWith(rresponse.details, "failed") :
           pendiente[rresponse.details[k].file].kind # "none"

====
